---- MODULE Spec2Model ----
(***************************************************************************)
(* A model of the Anonymizer backend (backend/main.py and                  *)
(* backend/logic/process_pdf.py).                                           *)
(*                                                                         *)
(* A text is a sequence of one-character strings.  A PDF file is a record  *)
(* that lists the text of each page.  The libraries the code calls         *)
(* (pdfplumber, PyMuPDF, spaCy, the operating system) are the environment: *)
(* what they return or raise is a nondeterministic input of the action     *)
(* that makes the call.                                                    *)
(*                                                                         *)
(* Specifications:                                                         *)
(*   Spec         the /anonymize handler, several requests interleaved     *)
(*   SpecDetect   find_pii_entities, find_nric_matches and their union     *)
(*   SpecExtract  extract_text_from_pdf                                    *)
(*   SpecRedact   redact_sensitive_text                                    *)
(***************************************************************************)
EXTENDS Naturals, Sequences, FiniteSets, TLC

VARIABLES
    fs,      \* the file system: path -> file content, or Absent
    issued,  \* the identifiers uuid.uuid4() has returned so far
    req,     \* worker -> the locals of the /anonymize call it is running
    unit     \* the arguments, locals and result of a function called alone

vars == <<fs, issued, req, unit>>

(***************************************************************************)
(* Bounds of the model.                                                    *)
(***************************************************************************)
\* fragments concatenated into one text given to the detectors
MaxFrags == 3
\* entities the recogniser reports for one text
MaxEnts == 2
\* pages of a document given to extract_text_from_pdf
MaxExtractPages == 3
\* pages of a document given to redact_sensitive_text
MaxRedactPages == 2
\* strings in the list given to redact_sensitive_text
MaxTargets == 2
\* /anonymize requests received in one run of the server
MaxRequests == 2

(***************************************************************************)
(* Generic helpers.                                                        *)
(***************************************************************************)
Range(s) == {s[i] : i \in DOMAIN s}

NoDuplicates(s) == \A i, j \in DOMAIN s : i # j => s[i] # s[j]

\* list(set(...)): Python fixes no order, so every duplicate-free listing
\* of the set is a possible value.
ListsOf(S) ==
    {f \in [1..Cardinality(S) -> S] : NoDuplicates(f)}

\* every sequence over S of length at most n
SeqsUpTo(S, n) == UNION {[1..k -> S] : k \in 0..n}

RECURSIVE Concat(_)
Concat(ss) ==
    IF ss = <<>> THEN <<>> ELSE Head(ss) \o Concat(Tail(ss))

\* Python's None among text values
None == <<"<None>">>

\* `not text` for a value that is None or a str
Falsy(text) == text = None \/ text = <<>>

(***************************************************************************)
(* Character classes.                                                      *)
(***************************************************************************)
\* A character outside ASCII is written "U+" and its code point in
\* hexadecimal: "U+FF11" is the one character FULLWIDTH DIGIT ONE.
AsciiDigits == {"0", "1", "2", "3", "4", "5", "6", "7", "8", "9"}

\* the decimal digits of the other scripts (Unicode category Nd)
NonAsciiDigits ==
    {"U+0660", "U+0661", "U+0662", "U+0663", "U+0664", "U+0665", "U+0666",
     "U+0667", "U+0668", "U+0669", "U+06F0", "U+06F1", "U+06F2", "U+06F3",
     "U+06F4", "U+06F5", "U+06F6", "U+06F7", "U+06F8", "U+06F9", "U+07C0",
     "U+07C1", "U+07C2", "U+07C3", "U+07C4", "U+07C5", "U+07C6", "U+07C7",
     "U+07C8", "U+07C9", "U+0966", "U+0967", "U+0968", "U+0969", "U+096A",
     "U+096B", "U+096C", "U+096D", "U+096E", "U+096F", "U+09E6", "U+09E7",
     "U+09E8", "U+09E9", "U+09EA", "U+09EB", "U+09EC", "U+09ED", "U+09EE",
     "U+09EF", "U+0A66", "U+0A67", "U+0A68", "U+0A69", "U+0A6A", "U+0A6B",
     "U+0A6C", "U+0A6D", "U+0A6E", "U+0A6F", "U+0AE6", "U+0AE7", "U+0AE8",
     "U+0AE9", "U+0AEA", "U+0AEB", "U+0AEC", "U+0AED", "U+0AEE", "U+0AEF",
     "U+0B66", "U+0B67", "U+0B68", "U+0B69", "U+0B6A", "U+0B6B", "U+0B6C",
     "U+0B6D", "U+0B6E", "U+0B6F", "U+0BE6", "U+0BE7", "U+0BE8", "U+0BE9",
     "U+0BEA", "U+0BEB", "U+0BEC", "U+0BED", "U+0BEE", "U+0BEF", "U+0C66",
     "U+0C67", "U+0C68", "U+0C69", "U+0C6A", "U+0C6B", "U+0C6C", "U+0C6D",
     "U+0C6E", "U+0C6F", "U+0CE6", "U+0CE7", "U+0CE8", "U+0CE9", "U+0CEA",
     "U+0CEB", "U+0CEC", "U+0CED", "U+0CEE", "U+0CEF", "U+0D66", "U+0D67",
     "U+0D68", "U+0D69", "U+0D6A", "U+0D6B", "U+0D6C", "U+0D6D", "U+0D6E",
     "U+0D6F", "U+0DE6", "U+0DE7", "U+0DE8", "U+0DE9", "U+0DEA", "U+0DEB",
     "U+0DEC", "U+0DED", "U+0DEE", "U+0DEF", "U+0E50", "U+0E51", "U+0E52",
     "U+0E53", "U+0E54", "U+0E55", "U+0E56", "U+0E57", "U+0E58", "U+0E59",
     "U+0ED0", "U+0ED1", "U+0ED2", "U+0ED3", "U+0ED4", "U+0ED5", "U+0ED6",
     "U+0ED7", "U+0ED8", "U+0ED9", "U+0F20", "U+0F21", "U+0F22", "U+0F23",
     "U+0F24", "U+0F25", "U+0F26", "U+0F27", "U+0F28", "U+0F29", "U+1040",
     "U+1041", "U+1042", "U+1043", "U+1044", "U+1045", "U+1046", "U+1047",
     "U+1048", "U+1049", "U+1090", "U+1091", "U+1092", "U+1093", "U+1094",
     "U+1095", "U+1096", "U+1097", "U+1098", "U+1099", "U+17E0", "U+17E1",
     "U+17E2", "U+17E3", "U+17E4", "U+17E5", "U+17E6", "U+17E7", "U+17E8",
     "U+17E9", "U+1810", "U+1811", "U+1812", "U+1813", "U+1814", "U+1815",
     "U+1816", "U+1817", "U+1818", "U+1819", "U+1946", "U+1947", "U+1948",
     "U+1949", "U+194A", "U+194B", "U+194C", "U+194D", "U+194E", "U+194F",
     "U+19D0", "U+19D1", "U+19D2", "U+19D3", "U+19D4", "U+19D5", "U+19D6",
     "U+19D7", "U+19D8", "U+19D9", "U+1A80", "U+1A81", "U+1A82", "U+1A83",
     "U+1A84", "U+1A85", "U+1A86", "U+1A87", "U+1A88", "U+1A89", "U+1A90",
     "U+1A91", "U+1A92", "U+1A93", "U+1A94", "U+1A95", "U+1A96", "U+1A97",
     "U+1A98", "U+1A99", "U+1B50", "U+1B51", "U+1B52", "U+1B53", "U+1B54",
     "U+1B55", "U+1B56", "U+1B57", "U+1B58", "U+1B59", "U+1BB0", "U+1BB1",
     "U+1BB2", "U+1BB3", "U+1BB4", "U+1BB5", "U+1BB6", "U+1BB7", "U+1BB8",
     "U+1BB9", "U+1C40", "U+1C41", "U+1C42", "U+1C43", "U+1C44", "U+1C45",
     "U+1C46", "U+1C47", "U+1C48", "U+1C49", "U+1C50", "U+1C51", "U+1C52",
     "U+1C53", "U+1C54", "U+1C55", "U+1C56", "U+1C57", "U+1C58", "U+1C59",
     "U+A620", "U+A621", "U+A622", "U+A623", "U+A624", "U+A625", "U+A626",
     "U+A627", "U+A628", "U+A629", "U+A8D0", "U+A8D1", "U+A8D2", "U+A8D3",
     "U+A8D4", "U+A8D5", "U+A8D6", "U+A8D7", "U+A8D8", "U+A8D9", "U+A900",
     "U+A901", "U+A902", "U+A903", "U+A904", "U+A905", "U+A906", "U+A907",
     "U+A908", "U+A909", "U+A9D0", "U+A9D1", "U+A9D2", "U+A9D3", "U+A9D4",
     "U+A9D5", "U+A9D6", "U+A9D7", "U+A9D8", "U+A9D9", "U+A9F0", "U+A9F1",
     "U+A9F2", "U+A9F3", "U+A9F4", "U+A9F5", "U+A9F6", "U+A9F7", "U+A9F8",
     "U+A9F9", "U+AA50", "U+AA51", "U+AA52", "U+AA53", "U+AA54", "U+AA55",
     "U+AA56", "U+AA57", "U+AA58", "U+AA59", "U+ABF0", "U+ABF1", "U+ABF2",
     "U+ABF3", "U+ABF4", "U+ABF5", "U+ABF6", "U+ABF7", "U+ABF8", "U+ABF9",
     "U+FF10", "U+FF11", "U+FF12", "U+FF13", "U+FF14", "U+FF15", "U+FF16",
     "U+FF17", "U+FF18", "U+FF19", "U+104A0", "U+104A1", "U+104A2",
     "U+104A3", "U+104A4", "U+104A5", "U+104A6", "U+104A7", "U+104A8",
     "U+104A9", "U+10D30", "U+10D31", "U+10D32", "U+10D33", "U+10D34",
     "U+10D35", "U+10D36", "U+10D37", "U+10D38", "U+10D39", "U+11066",
     "U+11067", "U+11068", "U+11069", "U+1106A", "U+1106B", "U+1106C",
     "U+1106D", "U+1106E", "U+1106F", "U+110F0", "U+110F1", "U+110F2",
     "U+110F3", "U+110F4", "U+110F5", "U+110F6", "U+110F7", "U+110F8",
     "U+110F9", "U+11136", "U+11137", "U+11138", "U+11139", "U+1113A",
     "U+1113B", "U+1113C", "U+1113D", "U+1113E", "U+1113F", "U+111D0",
     "U+111D1", "U+111D2", "U+111D3", "U+111D4", "U+111D5", "U+111D6",
     "U+111D7", "U+111D8", "U+111D9", "U+112F0", "U+112F1", "U+112F2",
     "U+112F3", "U+112F4", "U+112F5", "U+112F6", "U+112F7", "U+112F8",
     "U+112F9", "U+11450", "U+11451", "U+11452", "U+11453", "U+11454",
     "U+11455", "U+11456", "U+11457", "U+11458", "U+11459", "U+114D0",
     "U+114D1", "U+114D2", "U+114D3", "U+114D4", "U+114D5", "U+114D6",
     "U+114D7", "U+114D8", "U+114D9", "U+11650", "U+11651", "U+11652",
     "U+11653", "U+11654", "U+11655", "U+11656", "U+11657", "U+11658",
     "U+11659", "U+116C0", "U+116C1", "U+116C2", "U+116C3", "U+116C4",
     "U+116C5", "U+116C6", "U+116C7", "U+116C8", "U+116C9", "U+11730",
     "U+11731", "U+11732", "U+11733", "U+11734", "U+11735", "U+11736",
     "U+11737", "U+11738", "U+11739", "U+118E0", "U+118E1", "U+118E2",
     "U+118E3", "U+118E4", "U+118E5", "U+118E6", "U+118E7", "U+118E8",
     "U+118E9", "U+11950", "U+11951", "U+11952", "U+11953", "U+11954",
     "U+11955", "U+11956", "U+11957", "U+11958", "U+11959", "U+11C50",
     "U+11C51", "U+11C52", "U+11C53", "U+11C54", "U+11C55", "U+11C56",
     "U+11C57", "U+11C58", "U+11C59", "U+11D50", "U+11D51", "U+11D52",
     "U+11D53", "U+11D54", "U+11D55", "U+11D56", "U+11D57", "U+11D58",
     "U+11D59", "U+11DA0", "U+11DA1", "U+11DA2", "U+11DA3", "U+11DA4",
     "U+11DA5", "U+11DA6", "U+11DA7", "U+11DA8", "U+11DA9", "U+16A60",
     "U+16A61", "U+16A62", "U+16A63", "U+16A64", "U+16A65", "U+16A66",
     "U+16A67", "U+16A68", "U+16A69", "U+16AC0", "U+16AC1", "U+16AC2",
     "U+16AC3", "U+16AC4", "U+16AC5", "U+16AC6", "U+16AC7", "U+16AC8",
     "U+16AC9", "U+16B50", "U+16B51", "U+16B52", "U+16B53", "U+16B54",
     "U+16B55", "U+16B56", "U+16B57", "U+16B58", "U+16B59", "U+1D7CE",
     "U+1D7CF", "U+1D7D0", "U+1D7D1", "U+1D7D2", "U+1D7D3", "U+1D7D4",
     "U+1D7D5", "U+1D7D6", "U+1D7D7", "U+1D7D8", "U+1D7D9", "U+1D7DA",
     "U+1D7DB", "U+1D7DC", "U+1D7DD", "U+1D7DE", "U+1D7DF", "U+1D7E0",
     "U+1D7E1", "U+1D7E2", "U+1D7E3", "U+1D7E4", "U+1D7E5", "U+1D7E6",
     "U+1D7E7", "U+1D7E8", "U+1D7E9", "U+1D7EA", "U+1D7EB", "U+1D7EC",
     "U+1D7ED", "U+1D7EE", "U+1D7EF", "U+1D7F0", "U+1D7F1", "U+1D7F2",
     "U+1D7F3", "U+1D7F4", "U+1D7F5", "U+1D7F6", "U+1D7F7", "U+1D7F8",
     "U+1D7F9", "U+1D7FA", "U+1D7FB", "U+1D7FC", "U+1D7FD", "U+1D7FE",
     "U+1D7FF", "U+1E140", "U+1E141", "U+1E142", "U+1E143", "U+1E144",
     "U+1E145", "U+1E146", "U+1E147", "U+1E148", "U+1E149", "U+1E2F0",
     "U+1E2F1", "U+1E2F2", "U+1E2F3", "U+1E2F4", "U+1E2F5", "U+1E2F6",
     "U+1E2F7", "U+1E2F8", "U+1E2F9", "U+1E950", "U+1E951", "U+1E952",
     "U+1E953", "U+1E954", "U+1E955", "U+1E956", "U+1E957", "U+1E958",
     "U+1E959", "U+1FBF0", "U+1FBF1", "U+1FBF2", "U+1FBF3", "U+1FBF4",
     "U+1FBF5", "U+1FBF6", "U+1FBF7", "U+1FBF8", "U+1FBF9"}

\* \d in a str pattern: every Unicode decimal digit
Digits == AsciiDigits \cup NonAsciiDigits

Upper == {"A", "B", "C", "D", "E", "F", "G", "H", "I", "J", "K", "L", "M",
          "N", "O", "P", "Q", "R", "S", "T", "U", "V", "W", "X", "Y", "Z"}

(***************************************************************************)
(* process_pdf.py: the pattern detector.                                   *)
(***************************************************************************)
\* the same pattern with the last class widened to any letter
NRIC_REGEX_PATTERN_anycase ==
    <<{"S", "T", "F", "G"}>> \o [i \in 1..7 |-> Digits]
        \o <<Upper \cup {"a", "b", "c", "x", "y", "z"}>>

\* r"[STFG]\d{7}[A-Z]" as the sequence of its character classes
NRIC_REGEX_PATTERN ==
    <<{"S", "T", "F", "G"}>> \o [i \in 1..7 |-> Digits] \o <<Upper>>

\* the pattern matches text at position i
MatchAt(pattern, text, i) ==
    /\ i + Len(pattern) - 1 <= Len(text)
    /\ \A k \in 1..Len(pattern) : text[i + k - 1] \in pattern[k]

\* re.findall(pattern, text): the non-overlapping matches, scanning from
\* the left and resuming after each match
RECURSIVE findall_from(_, _, _)
findall_from(pattern, text, i) ==
    IF i > Len(text) THEN <<>>
    ELSE IF MatchAt(pattern, text, i)
         THEN <<SubSeq(text, i, i + Len(pattern) - 1)>>
                  \o findall_from(pattern, text, i + Len(pattern))
         ELSE findall_from(pattern, text, i + 1)

re_findall(pattern, text) == findall_from(pattern, text, 1)

\* find_nric_matches(text): the values it may return
find_nric_matches(text) ==
    IF Falsy(text) THEN {<<>>}
    ELSE ListsOf(Range(re_findall(NRIC_REGEX_PATTERN, text)))

(***************************************************************************)
(* process_pdf.py: the entity detector.                                    *)
(***************************************************************************)
PII_ENTITY_TYPES == {"PERSON", "GPE", "LOC", "ORG", "DATE"}

\* the loop over doc.ents: the texts of the entities whose label is listed
RECURSIVE pii_list(_)
pii_list(ents) ==
    IF ents = <<>> THEN <<>>
    ELSE IF Head(ents).label_ \in PII_ENTITY_TYPES
         THEN <<Head(ents).text>> \o pii_list(Tail(ents))
         ELSE pii_list(Tail(ents))

\* find_pii_entities(text) when nlp(text).ents is ents: the values it may
\* return
find_pii_entities(text, ents) ==
    IF Falsy(text) THEN {<<>>}
    ELSE ListsOf(Range(pii_list(ents)))

(***************************************************************************)
(* main.py lines 90-91 (and the script, lines 287-288): the aggregation.   *)
(***************************************************************************)
\* the two lists concatenated instead of united
CombinePII_concat(spacy_pii, nric_pii) == {spacy_pii \o nric_pii}

\* list(set(spacy_pii) | set(nric_pii)): the values it may have
CombinePII(spacy_pii, nric_pii) ==
    ListsOf(Range(spacy_pii) \cup Range(nric_pii))

(***************************************************************************)
(* Files.  A file is what was written to it: whether the bytes parse as a  *)
(* PDF, the text of each page, which program wrote the bytes, and whether  *)
(* the write was cut short.  Two files are byte-identical when the records *)
(* are equal.                                                              *)
(***************************************************************************)
Absent == [kind |-> "absent"]

Pdf(pages) ==
    [kind |-> "file", parseable |-> TRUE, pages |-> pages,
     writer |-> "upload", cut |-> FALSE]

\* bytes that are no PDF
Junk ==
    [kind |-> "file", parseable |-> FALSE, pages |-> <<>>,
     writer |-> "upload", cut |-> FALSE]

\* what a write that raised part-way leaves behind: some of the bytes of
\* the file, which parse as nothing
Truncated(file) ==
    [kind |-> "file", parseable |-> FALSE, pages |-> <<>>,
     writer |-> file.writer, cut |-> TRUE]

\* os.path.exists(path)
exists(files, path) == path \in DOMAIN files /\ files[path] # Absent

temp_input_path(unique_id) == <<unique_id, "_input.pdf">>
temp_output_path(unique_id) == <<unique_id, "_output_redacted.pdf">>

(***************************************************************************)
(* process_pdf.py: extract_text_from_pdf.  The library calls are numbered  *)
(* in the order the code makes them: 1 pdfplumber.open, 2 pdf.pages,       *)
(* 2 + i page i's extract_text, and last the close that ends the with      *)
(* block.  failAt is the number of the call that raises (0: none does);    *)
(* opening bytes that are no PDF always raises.                            *)
(***************************************************************************)
\* the except clause returning what was read so far
extract_except_partial(full_text) == full_text

\* lines 99-101: the except clause
extract_except(full_text) == None

\* lines 79-93: the loop from page i on
RECURSIVE extract_pages(_, _, _, _)
extract_pages(pages, i, full_text, failAt) ==
    IF i > Len(pages)
    THEN [raised |-> FALSE, full_text |-> full_text, printed |-> i - 1]
    ELSE IF failAt = 2 + i
    THEN [raised |-> TRUE, full_text |-> full_text, printed |-> i - 1]
    ELSE extract_pages(pages, i + 1,
                       IF pages[i] # <<>>
                       THEN full_text \o pages[i] \o <<"\n">>
                       ELSE full_text,
                       failAt)

\* lines 95-101: the with block ends (its close is the last library call)
\* and the text is returned, or the except clause runs
extract_outcome(loop, closeRaised) ==
    IF loop.raised \/ closeRaised
    THEN [ret |-> extract_except(loop.full_text), raised |-> TRUE,
          printed |-> loop.printed]
    ELSE [ret |-> loop.full_text, raised |-> FALSE, printed |-> loop.printed]

\* lines 72-96 on a file that exists
extract_from_file(file, failAt) ==
    IF ~file.parseable \/ failAt \in {1, 2}
    THEN [ret |-> extract_except(<<>>), raised |-> TRUE, printed |-> 0]
    ELSE extract_outcome(extract_pages(file.pages, 1, <<>>, failAt),
                         failAt = Len(file.pages) + 3)

\* the value returned, whether the except clause ran, and the number of
\* pages whose progress lines were printed
extract_text_from_pdf(files, pdf_file_path, failAt) ==
    IF ~exists(files, pdf_file_path)
    THEN [ret |-> None, raised |-> FALSE, printed |-> 0]
    ELSE extract_from_file(files[pdf_file_path], failAt)

\* the library calls extract_text_from_pdf makes on a file when none is
\* made to raise: none when the file is missing, the open alone when the
\* bytes are no PDF
ExtractCalls(file) ==
    IF file = Absent THEN 0
    ELSE IF ~file.parseable THEN 1
    ELSE Len(file.pages) + 3

(***************************************************************************)
(* PyMuPDF as the redactor uses it.  A rectangle is the pair of the first  *)
(* and last character position it covers.  Page.search_for ignores the     *)
(* case of ASCII letters and returns the hits from left to right.          *)
(***************************************************************************)
LowerToUpper ==
    [c \in {"a", "b", "c", "j", "o", "x", "y", "z"} |->
        CASE c = "a" -> "A" [] c = "b" -> "B" [] c = "c" -> "C"
          [] c = "j" -> "J" [] c = "o" -> "O" [] c = "x" -> "X"
          [] c = "y" -> "Y" [] c = "z" -> "Z"]

Fold(c) == IF c \in DOMAIN LowerToUpper THEN LowerToUpper[c] ELSE c

HitAt(text, needle, i) ==
    /\ i + Len(needle) - 1 <= Len(text)
    /\ \A k \in 1..Len(needle) : Fold(text[i + k - 1]) = Fold(needle[k])

RECURSIVE search_from(_, _, _)
search_from(text, needle, i) ==
    IF i > Len(text) THEN <<>>
    ELSE IF HitAt(text, needle, i)
         THEN <<<<i, i + Len(needle) - 1>>>>
                  \o search_from(text, needle, i + Len(needle))
         ELSE search_from(text, needle, i + 1)

\* page.search_for(needle)
search_for(text, needle) == search_from(text, needle, 1)

\* page.apply_redactions(): the characters under the pending marks are
\* removed and a black box "#" is left in their place
Blackout(text, marks) ==
    [i \in 1..Len(text) |->
        IF \E m \in marks : m[1] <= i /\ i <= m[2] THEN "#" ELSE text[i]]

(***************************************************************************)
(* process_pdf.py: redact_sensitive_text.  The state of one call is the    *)
(* pages of the open document, the marks pending on the current page,      *)
(* redactions_made, and the trace of the library calls made so far.        *)
(* failAt is the number of the library call that raises (0: none does).    *)
(***************************************************************************)
Event(call, page, target, rect, raised) ==
    [call |-> call, page |-> page, target |-> target, rect |-> rect,
     raised |-> raised]

\* one library call: it raises, or it returns and the state is `after`
LibCall(st, call, page, target, rect, after, failAt) ==
    IF Len(st.trace) + 1 = failAt
    THEN [st EXCEPT !.raised = TRUE,
                    !.trace = Append(@, Event(call, page, target, rect, TRUE))]
    ELSE [after EXCEPT
              !.trace = Append(st.trace,
                               Event(call, page, target, rect, FALSE))]

\* lines 235-236: a redaction annotation for each instance found
RECURSIVE add_redact_annots(_, _, _, _, _)
add_redact_annots(st, p, target, rects, failAt) ==
    IF st.raised \/ rects = <<>> THEN st
    ELSE add_redact_annots(
             LibCall(st, "add_redact_annot", p, target, Head(rects),
                     [st EXCEPT !.marks = @ \cup {Head(rects)}], failAt),
             p, target, Tail(rects), failAt)

\* lines 229-236: the hits of one target are counted and marked; the
\* lines are not reached when search_for raised
mark_instances(searched, p, target, search_instances, failAt) ==
    IF searched.raised THEN searched
    ELSE IF search_instances # <<>>
    THEN add_redact_annots(
             [searched EXCEPT !.made = @ + Len(search_instances)],
             p, target, search_instances, failAt)
    ELSE searched

\* lines 225-236: the loop over the targets on page p, from target k on
RECURSIVE redact_targets(_, _, _, _, _)
redact_targets(st, p, targets, k, failAt) ==
    IF st.raised \/ k > Len(targets) THEN st
    ELSE IF targets[k] = <<>>
    THEN redact_targets(st, p, targets, k + 1, failAt)
    ELSE redact_targets(
             mark_instances(
                 LibCall(st, "search_for", p, targets[k], <<>>, st, failAt),
                 p, targets[k], search_for(st.pages[p], targets[k]), failAt),
             p, targets, k + 1, failAt)

\* apply_redactions called only on a page that has marks
apply_page_if_marked(st, p, failAt) ==
    IF st.raised \/ st.marks = {} THEN st
    ELSE LibCall(st, "apply_redactions", p, <<>>, <<>>,
                 [st EXCEPT !.pages[p] = Blackout(@, st.marks),
                            !.marks = {}],
                 failAt)

\* line 239: page.apply_redactions(), reached when the loop over the
\* targets did not raise
apply_page(st, p, failAt) ==
    IF st.raised THEN st
    ELSE LibCall(st, "apply_redactions", p, <<>>, <<>>,
                 [st EXCEPT !.pages[p] = Blackout(@, st.marks),
                            !.marks = {}],
                 failAt)

\* lines 220-239: the loop over the pages, from page p on
RECURSIVE redact_pages(_, _, _, _)
redact_pages(st, p, targets, failAt) ==
    IF st.raised \/ p > Len(st.pages) THEN st
    ELSE redact_pages(
             apply_page(redact_targets(st, p, targets, 1, failAt), p, failAt),
             p + 1, targets, failAt)

\* the file doc.save(garbage=4, deflate=True) writes
Saved(pages) ==
    [kind |-> "file", parseable |-> TRUE, pages |-> pages,
     writer |-> "fitz", cut |-> FALSE]

\* a write that raised: nothing was created, or a truncated file is left
FailedWrite(files, path, file, partial) ==
    IF partial THEN [files EXCEPT ![path] = Truncated(file)] ELSE files

\* the state of a call before its first library call
NoCalls ==
    [pages |-> <<>>, marks |-> {}, made |-> 0, trace |-> <<>>,
     raised |-> FALSE]

\* line 216: fitz.open, which raises on bytes that are no PDF
open_document(file, failAt) ==
    IF ~file.parseable
    THEN LibCall(NoCalls, "open", 0, <<>>, <<>>, NoCalls, 1)
    ELSE LibCall(NoCalls, "open", 0, <<>>, <<>>,
                 [NoCalls EXCEPT !.pages = file.pages], failAt)

\* lines 252-254: the document is closed after the save
close_document(saved, files, output_pdf_path, failAt, partial) ==
    IF saved.raised
    THEN [st |-> saved,
          files |-> FailedWrite(files, output_pdf_path, Saved(saved.pages),
                                partial)]
    ELSE [st |-> LibCall(saved, "close", 0, <<>>, <<>>, saved, failAt),
          files |-> [files EXCEPT ![output_pdf_path] = Saved(saved.pages)]]

\* lines 241-254: the document is saved once, after the loop over the pages
save_document(looped, files, output_pdf_path, failAt, partial) ==
    IF looped.raised
    THEN [st |-> looped, files |-> files]
    ELSE close_document(
             LibCall(looped, "save", 0, <<>>, <<>>, looped, failAt),
             files, output_pdf_path, failAt, partial)

\* the output is written when the document is opened, before the pages are
\* processed
write_on_open(looped, files, input_pdf_path, output_pdf_path) ==
    [st |-> looped,
     files |-> IF looped.trace[1].raised THEN files
               ELSE [files EXCEPT ![output_pdf_path] =
                        Saved(files[input_pdf_path].pages)]]

\* the try block with the output written first
redact_document_save_first(files, input_pdf_path, output_pdf_path, text_list_to_redact, failAt, partial) ==
    write_on_open(
        redact_pages(open_document(files[input_pdf_path], failAt), 1,
                     text_list_to_redact, failAt),
        files, input_pdf_path, output_pdf_path)

\* lines 214-254: the try block, up to the return
redact_document(files, input_pdf_path, output_pdf_path, text_list_to_redact, failAt, partial) ==
    save_document(
        redact_pages(open_document(files[input_pdf_path], failAt), 1,
                     text_list_to_redact, failAt),
        files, output_pdf_path, failAt, partial)

\* the copy written by the document library instead of shutil.copyfile
copy_result_resave(copied, files, input_pdf_path, output_pdf_path, partial) ==
    [st |-> copied,
     files |->
         IF copied.raised
         THEN FailedWrite(files, output_pdf_path, files[input_pdf_path],
                          partial)
         ELSE [files EXCEPT ![output_pdf_path] =
                  Saved(files[input_pdf_path].pages)]]

\* lines 203-208: the copy is made, or it raised
copy_result(copied, files, input_pdf_path, output_pdf_path, partial) ==
    [st |-> copied,
     files |->
         IF copied.raised
         THEN FailedWrite(files, output_pdf_path, files[input_pdf_path],
                          partial)
         ELSE [files EXCEPT ![output_pdf_path] = files[input_pdf_path]]]

\* lines 199-208: nothing to redact, the input is copied to the output
redact_copy(files, input_pdf_path, output_pdf_path, failAt, partial) ==
    copy_result(LibCall(NoCalls, "copyfile", 0, <<>>, <<>>, NoCalls, failAt),
                files, input_pdf_path, output_pdf_path, partial)

\* lines 205, 208: what the copy branch returns
copy_outcome(r) ==
    [ret |-> ~r.st.raised, escaped |-> FALSE, files |-> r.files,
     trace |-> r.st.trace]

\* a run that marked nothing is reported as a failure
document_outcome_needs_match(r, closeRaises) ==
    [ret |-> ~r.st.raised /\ r.st.made > 0,
     escaped |-> /\ r.st.raised
                 /\ r.st.trace[1].raised = FALSE
                 /\ r.st.pages # <<>>
                 /\ closeRaises,
     files |-> r.files,
     trace |-> r.st.trace]

\* lines 254-259: what the try block returns.  escaped holds when the
\* doc.close() of the except clause (line 258) raised in its turn, so that
\* the call raises instead of returning; that close is made only when the
\* document was opened and has pages (`doc` is falsy when it has none).
document_outcome(r, closeRaises) ==
    [ret |-> ~r.st.raised,
     escaped |-> /\ r.st.raised
                 /\ r.st.trace[1].raised = FALSE
                 /\ r.st.pages # <<>>
                 /\ closeRaises,
     files |-> r.files,
     trace |-> r.st.trace]

\* The outcome of the call: what it returns (ret) unless it raises
\* (escaped), the files afterwards and the library calls it made.
redact_sensitive_text(files, input_pdf_path, output_pdf_path, text_list_to_redact, failAt, partial, closeRaises) ==
    IF ~exists(files, input_pdf_path)
    THEN [ret |-> FALSE, escaped |-> FALSE, files |-> files,
          trace |-> <<>>]
    ELSE IF text_list_to_redact = <<>>
    THEN copy_outcome(redact_copy(files, input_pdf_path, output_pdf_path,
                                  failAt, partial))
    ELSE document_outcome(
             redact_document(files, input_pdf_path, output_pdf_path,
                             text_list_to_redact, failAt, partial),
             closeRaises)

\* the library calls the call makes when none of them raises
RedactCalls(files, input_pdf_path, output_pdf_path, text_list_to_redact) ==
    Len(redact_sensitive_text(files, input_pdf_path, output_pdf_path,
                              text_list_to_redact, 0, FALSE, FALSE).trace)

(***************************************************************************)
(* The recogniser, nlp(text).ents: any sequence of labelled spans of the   *)
(* text.  The spans are drawn from EntityPool, the labels from NerLabels.   *)
(***************************************************************************)
NricA == <<"S", "1", "2", "3", "4", "5", "6", "7", "A">>
NricZ == <<"T", "7", "6", "5", "4", "3", "2", "1", "Z">>
Seven == <<"1", "2", "3", "4", "5", "6", "7">>

Occurs(needle, text) ==
    \E i \in 1..Len(text) :
        /\ i + Len(needle) - 1 <= Len(text)
        /\ SubSeq(text, i, i + Len(needle) - 1) = needle

EntityPool == {NricA, <<"a">>}

NerLabels == {"PERSON", "ORG", "CARDINAL"}

nlp_ents(text) ==
    SeqsUpTo({[text |-> s, label_ |-> l] :
                 s \in {p \in EntityPool : Occurs(p, text)}, l \in NerLabels},
             MaxEnts)

(***************************************************************************)
(* main.py: the /anonymize handler.  Each worker runs one call at a time;  *)
(* the calls of different workers interleave between the steps below.      *)
(* req[w] holds the locals of worker w's call, the response it returns and *)
(* the lines it printed that the properties refer to.                      *)
(***************************************************************************)
Workers == {"w1", "w2"}

\* the uploads the requests carry: bytes that are no PDF, a PDF whose one
\* page is an image, and a PDF with one page of text
Uploads ==
    {Junk,
     Pdf(<<<<>>>>),
     Pdf(<<<<"a">>>>)}

ErrorResponses ==
    {"error: Could not save uploaded file",
     "error: Temporary file vanished before processing.",
     "error: Processing completed, but no redacted output file was generated",
     "error: Failed to process and redact the PDF file.",
     "error: An internal server error occurred."}

\* every call returns the same identifier
uuid4_constant(used) == 1

\* line 54: uuid.uuid4(), an identifier that was never returned before
uuid4(used) == Cardinality(used) + 1

Idle ==
    [pc |-> "idle", unique_id |-> 0, file |-> Absent,
     extracted_text |-> None, all_pii_to_redact |-> <<>>,
     redaction_successful |-> FALSE, response |-> "none", log |-> {}]

\* the exception propagates to the caller instead of being caught
OuterExcept_reraise(r) ==
    [r EXCEPT !.pc = "finally", !.response = "raised"]

\* lines 121-124: the catch-all of the handler
OuterExcept(r) ==
    [r EXCEPT !.pc = "finally",
              !.response = "error: An internal server error occurred."]

\* line 75: the task is cancelled while it is suspended in the await.
\* asyncio.CancelledError is no Exception: the catch-all does not catch it,
\* the finally clause runs and the handler raises.
CloseCancelled(r) ==
    [r EXCEPT !.pc = "finally", !.response = "raised CancelledError"]

\* lines 52-64: a request arrives
Receive(w) ==
    /\ req[w].pc \in {"idle", "done"}
    /\ Cardinality(issued) < MaxRequests
    /\ \E file \in Uploads :
           req' = [req EXCEPT ![w] =
                      [Idle EXCEPT !.pc = "save",
                                   !.unique_id = uuid4(issued),
                                   !.file = file]]
    /\ issued' = issued \cup {uuid4(issued)}
    /\ UNCHANGED <<fs, unit>>

\* lines 67-73: the upload is saved, or the save raises before or after the
\* input file was created
SaveUpload(w) ==
    /\ req[w].pc = "save"
    /\ \/ /\ fs' = [fs EXCEPT ![temp_input_path(req[w].unique_id)] =
                       req[w].file]
          /\ req' = [req EXCEPT ![w].pc = "close"]
       \/ /\ \E partial \in BOOLEAN :
                 fs' = FailedWrite(fs, temp_input_path(req[w].unique_id),
                                   req[w].file, partial)
          /\ req' = [req EXCEPT
                        ![w].pc = "close",
                        ![w].response =
                            "error: Could not save uploaded file"]
    /\ UNCHANGED <<issued, unit>>

\* lines 74-76: the inner finally closes the upload handle; if the close
\* raises, the exception replaces a pending return and reaches the
\* catch-all; if the task is cancelled at the await, CancelledError replaces
\* a pending return and leaves the handler
CloseUpload(w) ==
    /\ req[w].pc = "close"
    /\ \/ req' = [req EXCEPT ![w] = OuterExcept(@)]
       \/ req' = [req EXCEPT ![w] = CloseCancelled(@)]
       \/ req' = [req EXCEPT ![w].pc =
                     IF req[w].response # "none" THEN "finally"
                     ELSE "extract"]
    /\ UNCHANGED <<fs, issued, unit>>

\* lines 79-85 with the value extracted_text of the call
ExtractReturns(w, extracted_text) ==
    req' = [req EXCEPT ![w] =
        IF Falsy(extracted_text)
        THEN IF ~exists(fs, temp_input_path(req[w].unique_id))
             THEN [@ EXCEPT
                      !.extracted_text = extracted_text,
                      !.pc = "finally",
                      !.response =
                          "error: Temporary file vanished before processing."]
             ELSE [@ EXCEPT
                      !.extracted_text = extracted_text,
                      !.log = @ \cup {"Warning: No text extracted from PDF."},
                      !.all_pii_to_redact = <<>>,
                      !.pc = "redact"]
        ELSE [@ EXCEPT !.extracted_text = extracted_text, !.pc = "detect"]]

\* lines 79-85
ExtractText(w) ==
    /\ req[w].pc = "extract"
    /\ \E failAt \in 0..ExtractCalls(fs[temp_input_path(req[w].unique_id)]) :
           ExtractReturns(w, extract_text_from_pdf(
                                 fs, temp_input_path(req[w].unique_id),
                                 failAt).ret)
    /\ UNCHANGED <<fs, issued, unit>>

\* lines 88-92; nlp(text) may raise, which reaches the catch-all
FindPII(w) ==
    /\ req[w].pc = "detect"
    /\ \/ req' = [req EXCEPT ![w] = OuterExcept(@)]
       \/ \E ents \in nlp_ents(req[w].extracted_text) :
          \E spacy_pii \in find_pii_entities(req[w].extracted_text, ents) :
          \E nric_pii \in find_nric_matches(req[w].extracted_text) :
          \E combined \in CombinePII(spacy_pii, nric_pii) :
              req' = [req EXCEPT ![w].all_pii_to_redact = combined,
                                 ![w].pc = "redact"]
    /\ UNCHANGED <<fs, issued, unit>>

\* the lines redact_sensitive_text printed about a call that raised
RedactLog(trace) ==
    IF trace # <<>> /\ trace[Len(trace)].raised
    THEN IF trace[Len(trace)].call = "copyfile"
         THEN {"Error copying original file"}
         ELSE {"An error occurred during redaction"}
    ELSE {}

\* lines 95-99 with the outcome r of the call
RedactReturns(w, r) ==
    /\ fs' = r.files
    /\ req' = [req EXCEPT ![w] =
           IF r.escaped
           THEN OuterExcept([@ EXCEPT !.log = @ \cup RedactLog(r.trace)])
           ELSE [@ EXCEPT !.log = @ \cup RedactLog(r.trace),
                          !.redaction_successful = r.ret,
                          !.pc = "respond"]]

\* lines 95-99
Redact(w) ==
    /\ req[w].pc = "redact"
    /\ \E failAt \in 0..RedactCalls(fs, temp_input_path(req[w].unique_id),
                                    temp_output_path(req[w].unique_id),
                                    req[w].all_pii_to_redact),
          partial, closeRaises \in BOOLEAN :
           RedactReturns(w, redact_sensitive_text(
                                fs, temp_input_path(req[w].unique_id),
                                temp_output_path(req[w].unique_id),
                                req[w].all_pii_to_redact,
                                failAt, partial, closeRaises))
    /\ UNCHANGED <<issued, unit>>

\* lines 102-118
Respond(w) ==
    /\ req[w].pc = "respond"
    /\ req' = [req EXCEPT
           ![w].pc = "finally",
           ![w].response =
               IF req[w].redaction_successful
               THEN IF exists(fs, temp_output_path(req[w].unique_id))
                    THEN "file"
                    ELSE "error: Processing completed, but no redacted output file was generated"
               ELSE "error: Failed to process and redact the PDF file."]
    /\ UNCHANGED <<fs, issued, unit>>

\* the input file is deleted only when the request succeeded
finally_cleanup_on_success(files, r, removed) ==
    LET path == temp_input_path(r.unique_id) IN
    IF r.response = "file" /\ exists(files, path)
    THEN IF removed
         THEN [files |-> [files EXCEPT ![path] = Absent],
               log |-> {"Deleted temporary input file"}]
         ELSE [files |-> files,
               log |-> {"Error deleting temporary input file"}]
    ELSE [files |-> files, log |-> {}]

\* the output file is deleted together with the input file
finally_cleanup_both(files, r, removed) ==
    LET path == temp_input_path(r.unique_id) IN
    IF exists(files, path)
    THEN IF removed
         THEN [files |-> [files EXCEPT
                             ![path] = Absent,
                             ![temp_output_path(r.unique_id)] = Absent],
               log |-> {"Deleted temporary input file"}]
         ELSE [files |-> files,
               log |-> {"Error deleting temporary input file"}]
    ELSE [files |-> files, log |-> {}]

\* lines 128-135: the finally clause; os.remove returns (removed) or raises,
\* and what it raises is printed and dropped
finally_cleanup(files, r, removed) ==
    LET path == temp_input_path(r.unique_id) IN
    IF exists(files, path)
    THEN IF removed
         THEN [files |-> [files EXCEPT ![path] = Absent],
               log |-> {"Deleted temporary input file"}]
         ELSE [files |-> files,
               log |-> {"Error deleting temporary input file"}]
    ELSE [files |-> files, log |-> {}]

\* lines 128-135, and the handler returns: its locals are gone, the
\* response and what the finally clause printed remain
Cleanup(w) ==
    /\ req[w].pc = "finally"
    /\ \E removed \in BOOLEAN :
           LET c == finally_cleanup(fs, req[w], removed) IN
           /\ fs' = c.files
           /\ req' = [req EXCEPT ![w] =
                      [Idle EXCEPT !.pc = "done",
                                   !.unique_id = req[w].unique_id,
                                   !.response = req[w].response,
                                   !.log = c.log]]
    /\ UNCHANGED <<issued, unit>>

TempPaths ==
    {temp_input_path(i) : i \in 1..MaxRequests}
        \cup {temp_output_path(i) : i \in 1..MaxRequests}

\* line 39: the temp directory exists and holds no file of a request yet
Init ==
    /\ fs = [path \in TempPaths |-> Absent]
    /\ issued = {}
    /\ req = [w \in Workers |-> Idle]
    /\ unit = [fn |-> "none"]

Next ==
    \E w \in Workers :
        \/ Receive(w)
        \/ SaveUpload(w)
        \/ CloseUpload(w)
        \/ ExtractText(w)
        \/ FindPII(w)
        \/ Redact(w)
        \/ Respond(w)
        \/ Cleanup(w)

Spec == Init /\ [][Next]_vars

\* C1 as stated: once the handler has finished, whatever path it took, the
\* request's temp input file does not exist.
C1_InputGoneWhenDone ==
    \A w \in Workers :
        req[w].pc = "done" =>
            ~exists(fs, temp_input_path(req[w].unique_id))

\* C1 amended: once the handler has finished, whatever path it took, the
\* request's temp input file does not exist, unless os.remove raised in the
\* finally clause: then the error was printed and the file is left behind.
C1_InputGoneUnlessRemoveRaised ==
    \A w \in Workers :
        req[w].pc = "done" =>
            \/ ~exists(fs, temp_input_path(req[w].unique_id))
            \/ "Error deleting temporary input file" \in req[w].log

\* a request whose redaction failed has finished, and its finally clause
\* deleted the input file
C1_Witness ==
    \E w \in Workers :
        /\ req[w].pc = "done"
        /\ req[w].response =
               "error: Failed to process and redact the PDF file."
        /\ "Deleted temporary input file" \in req[w].log
        /\ ~exists(fs, temp_input_path(req[w].unique_id))

\* C2 as stated: a request ends in a file response or in a JSON object with
\* an error field; no exception of the save, the close, the extraction, the
\* detection, the redaction or the cleanup leaves the handler.
C2_FileOrJsonError ==
    \A w \in Workers :
        /\ req[w].response # "raised"
        /\ req[w].pc = "done" =>
               req[w].response \in {"file"} \cup ErrorResponses

\* a request ends by raising only through a step of the inner finally
\* (lines 74-76), where the await is
RaisesOnlyAtClose ==
    \A w \in Workers :
        (req'[w].response = "raised CancelledError"
             /\ req[w].response # "raised CancelledError") =>
            req[w].pc = "close"

\* C2 amended: no exception of the save, the close, the extraction, the
\* detection, the redaction or the cleanup leaves the handler, and a request
\* ends in a file response or in a JSON object with an error field, unless
\* its task was cancelled while it awaited the close of the upload handle:
\* then the handler runs its finally clause and raises CancelledError.
C2_FileOrJsonErrorUnlessCancelled ==
    /\ [](\A w \in Workers :
              /\ req[w].response # "raised"
              /\ req[w].pc = "done" =>
                     req[w].response \in
                         {"file", "raised CancelledError"}
                             \cup ErrorResponses)
    /\ [][RaisesOnlyAtClose]_vars

\* a request that ended in the internal-error body after an exception was
\* caught, and whose cleanup raised as well; and another request that was
\* cancelled at the await, deleted its input file and raised
C2_Witness ==
    \E w1, w2 \in Workers :
        /\ req[w1].pc = "done"
        /\ req[w1].response = "error: An internal server error occurred."
        /\ "Error deleting temporary input file" \in req[w1].log
        /\ req[w2].pc = "done"
        /\ req[w2].response = "raised CancelledError"
        /\ "Deleted temporary input file" \in req[w2].log

\* C3 as stated: when no text was extracted and the input file exists, the
\* target list is empty, the output file is a byte-identical copy of the
\* input and the request succeeds with a file response.
C3_NoTextCopiesAndSucceeds ==
    \A w \in Workers :
        (/\ req[w].pc = "finally"
         /\ "Warning: No text extracted from PDF." \in req[w].log) =>
            /\ req[w].all_pii_to_redact = <<>>
            /\ fs[temp_output_path(req[w].unique_id)]
                   = fs[temp_input_path(req[w].unique_id)]
            /\ req[w].response = "file"

\* C3 amended: when no text was extracted and the input file exists, the
\* target list is empty; the output file is a byte-identical copy of the
\* input and the request succeeds with a file response, unless the copy
\* itself raised: then the request ends in the JSON error of a failed
\* redaction.
C3_NoTextCopiesUnlessCopyRaised ==
    \A w \in Workers :
        (/\ req[w].pc = "finally"
         /\ "Warning: No text extracted from PDF." \in req[w].log) =>
            /\ req[w].all_pii_to_redact = <<>>
            /\ IF "Error copying original file" \in req[w].log
               THEN req[w].response =
                        "error: Failed to process and redact the PDF file."
               ELSE /\ exists(fs, temp_input_path(req[w].unique_id))
                    /\ fs[temp_output_path(req[w].unique_id)]
                           = fs[temp_input_path(req[w].unique_id)]
                    /\ fs[temp_output_path(req[w].unique_id)] = req[w].file
                    /\ req[w].response = "file"

\* extraction returned the absent value for an upload that is no PDF, the
\* upload was copied to the output and the response is the file
C3_Witness ==
    \E w \in Workers :
        /\ req[w].pc = "finally"
        /\ "Warning: No text extracted from PDF." \in req[w].log
        /\ req[w].extracted_text = None
        /\ req[w].response = "file"
        /\ fs[temp_output_path(req[w].unique_id)] = Junk

OutputPaths == {temp_output_path(i) : i \in 1..MaxRequests}

\* C8: the handler never deletes a temp output file: an output file that
\* exists still exists after every step of every request.
C8_OutputNeverDeleted ==
    [][\A path \in OutputPaths : exists(fs, path) => exists(fs', path)]_vars

\* two requests have finished one after the other and the output file of
\* each is there
C8_Witness ==
    /\ \A w \in Workers : req[w].pc \in {"idle", "done"}
    /\ \E w \in Workers : req[w].pc = "done" /\ req[w].unique_id = 2
    /\ exists(fs, temp_output_path(1))
    /\ exists(fs, temp_output_path(2))

\* no two calls in progress or finished hold the same identifier
DistinctIds ==
    \A w1, w2 \in Workers :
        (w1 # w2 /\ req[w1].unique_id # 0) =>
            req[w1].unique_id # req[w2].unique_id

\* what a request relies on is as the request left it: its input file holds
\* the upload from the save to the cleanup, its output file is there when it
\* answers with it, and it never finds a file of its own missing
OwnFilesIntact ==
    \A w \in Workers :
        /\ req[w].pc \in {"extract", "detect", "redact", "respond"} =>
               fs[temp_input_path(req[w].unique_id)] = req[w].file
        /\ (req[w].pc = "finally" /\ req[w].response = "file") =>
               exists(fs, temp_output_path(req[w].unique_id))
        /\ req[w].response \notin
               {"error: Temporary file vanished before processing.",
                "error: Processing completed, but no redacted output file was generated"}

\* a step changes only files that carry the identifier of the request that
\* took the step, and a new request gets an identifier no request had
OnlyOwnFiles ==
    /\ \A path \in TempPaths :
           fs'[path] # fs[path] =>
               \E w \in Workers :
                   /\ req'[w] # req[w]
                   /\ path \in {temp_input_path(req[w].unique_id),
                                temp_output_path(req[w].unique_id)}
    /\ \A w \in Workers :
           req'[w].unique_id # req[w].unique_id =>
               /\ req'[w].unique_id \notin issued
               /\ ~exists(fs, temp_input_path(req'[w].unique_id))
               /\ ~exists(fs, temp_output_path(req'[w].unique_id))

\* C10: however the requests interleave, each creates, writes and deletes
\* only the temp files that carry its own identifier and no request holds
\* another's identifier, so each request finds its files as it left them and
\* ends as it would have ended alone.
C10_RequestsIsolated ==
    [](DistinctIds /\ OwnFilesIntact) /\ [][OnlyOwnFiles]_vars

\* one request is about to read its input file while another request has
\* already finished and deleted its own
C10_Witness ==
    \E w1, w2 \in Workers :
        /\ req[w1].pc = "extract"
        /\ req[w2].pc = "done"
        /\ req[w2].response = "file"
        /\ "Deleted temporary input file" \in req[w2].log
        /\ fs[temp_input_path(req[w1].unique_id)] = req[w1].file

(***************************************************************************)
(* SpecDetect: the detectors and the aggregation applied to bounded texts. *)
(***************************************************************************)
\* an identifier whose digits are of three scripts (ASCII, Devanagari,
\* fullwidth)
NricU == <<"T", "1", "2", "U+0969", "U+096A", "5", "U+FF16", "7", "B">>

Fragments ==
    {NricA, NricZ, NricU, Seven, <<"S">>, <<"A">>, <<"a">>, <<"8">>, <<"X">>}

DetectTexts == {Concat(fr) : fr \in SeqsUpTo(Fragments, MaxFrags)}

InitDetect ==
    /\ fs = <<>>
    /\ issued = {}
    /\ req = <<>>
    /\ \E t \in DetectTexts :
           unit = [fn |-> "detect", at |-> "spacy", extracted_text |-> t,
                   spacy_pii |-> <<>>, nric_pii |-> <<>>,
                   all_pii_to_redact |-> <<>>]

\* main.py line 88; nlp(text) may raise: then nothing is assigned and the
\* exception leaves the statement
DetectSpacy ==
    /\ unit.fn = "detect" /\ unit.at = "spacy"
    /\ \/ unit' = [unit EXCEPT !.at = "raised"]
       \/ \E ents \in nlp_ents(unit.extracted_text) :
            \E r \in find_pii_entities(unit.extracted_text, ents) :
                unit' = [unit EXCEPT !.spacy_pii = r, !.at = "nric"]
    /\ UNCHANGED <<fs, issued, req>>

\* main.py line 89
DetectNric ==
    /\ unit.fn = "detect" /\ unit.at = "nric"
    /\ \E r \in find_nric_matches(unit.extracted_text) :
           unit' = [unit EXCEPT !.nric_pii = r, !.at = "combine"]
    /\ UNCHANGED <<fs, issued, req>>

\* main.py lines 90-91
DetectCombine ==
    /\ unit.fn = "detect" /\ unit.at = "combine"
    /\ \E r \in CombinePII(unit.spacy_pii, unit.nric_pii) :
           unit' = [unit EXCEPT !.all_pii_to_redact = r, !.at = "done"]
    /\ UNCHANGED <<fs, issued, req>>

NextDetect == DetectSpacy \/ DetectNric \/ DetectCombine

SpecDetect == InitDetect /\ [][NextDetect]_vars

\* C6: the aggregated list is the set union of the two detectors' lists:
\* every string of either list is in it, no other string is, and no string
\* is in it twice (a string both detectors returned included).
C6_AggregateIsUnion ==
    (unit.fn = "detect" /\ unit.at = "done") =>
        /\ \A s \in Range(unit.spacy_pii) \cup Range(unit.nric_pii) :
               Cardinality({i \in DOMAIN unit.all_pii_to_redact :
                               unit.all_pii_to_redact[i] = s}) = 1
        /\ \A i \in DOMAIN unit.all_pii_to_redact :
               unit.all_pii_to_redact[i]
                   \in Range(unit.spacy_pii) \cup Range(unit.nric_pii)

\* a text where both detectors returned the same string, another string
\* came from one detector only, and the aggregation has run
C6_Witness ==
    /\ unit.fn = "detect" /\ unit.at = "done"
    /\ Range(unit.spacy_pii) \cap Range(unit.nric_pii) # {}
    /\ Range(unit.spacy_pii) # Range(unit.nric_pii)
    /\ Len(unit.all_pii_to_redact) = 2

ExtractPageTexts == {<<>>, <<"a">>, <<"b", "8">>}

ExtractFiles ==
    {Absent, Junk}
        \cup {Pdf(pages) : pages \in SeqsUpTo(ExtractPageTexts, MaxExtractPages)}

InitExtract ==
    /\ issued = {}
    /\ req = <<>>
    /\ \E file \in ExtractFiles :
           fs = [path \in {temp_input_path(0)} |-> file]
    /\ unit = [fn |-> "extract", at |-> "call", ret |-> None,
               raised |-> FALSE, printed |-> 0]

\* the call returns with outcome r
ExtractCallReturns(r) ==
    unit' = [unit EXCEPT !.at = "done", !.ret = r.ret,
                         !.raised = r.raised, !.printed = r.printed]

ExtractCall ==
    /\ unit.fn = "extract" /\ unit.at = "call"
    /\ \E failAt \in 0..ExtractCalls(fs[temp_input_path(0)]) :
           ExtractCallReturns(
               extract_text_from_pdf(fs, temp_input_path(0), failAt))
    /\ UNCHANGED <<fs, issued, req>>

NextExtract == ExtractCall

SpecExtract == InitExtract /\ [][NextExtract]_vars

\* the text of the pages in page order, each page that has text followed
\* by a newline
RECURSIVE WholeText(_)
WholeText(pages) ==
    IF pages = <<>> THEN <<>>
    ELSE (IF Head(pages) = <<>> THEN <<>> ELSE Head(pages) \o <<"\n">>)
             \o WholeText(Tail(pages))

\* C5 as stated: extract_text_from_pdf returns the absent value whenever the
\* file does not exist, the document has no pages, or the library raised.
C5_AbsentOnNoFileNoPagesOrRaise ==
    (unit.fn = "extract" /\ unit.at = "done") =>
        LET file == fs[temp_input_path(0)] IN
        (file = Absent \/ unit.raised \/ file.pages = <<>>) =>
            unit.ret = None

\* C5 amended: extract_text_from_pdf returns the absent value whenever the
\* file does not exist or the library raised at any point, and otherwise the
\* whole text of the document, never a part of it; for a document with no
\* pages that whole text is the empty string, not the absent value.
C5_AbsentOnNoFileOrRaise ==
    (unit.fn = "extract" /\ unit.at = "done") =>
        LET file == fs[temp_input_path(0)] IN
        IF file = Absent \/ unit.raised
        THEN unit.ret = None
        ELSE unit.ret = WholeText(file.pages) /\ unit.ret # None

\* the library raised on the third page after two pages had given text
C5_Witness ==
    /\ unit.fn = "extract" /\ unit.at = "done"
    /\ unit.raised /\ unit.printed = 2
    /\ fs[temp_input_path(0)] = Pdf(<<<<"a">>, <<"b", "8">>, <<"a">>>>)
    /\ unit.ret = None

(***************************************************************************)
(* SpecRedact: redact_sensitive_text applied to bounded documents and      *)
(* target lists, with no file at the output path before the call.          *)
(***************************************************************************)
RedactPageTexts == {<<>>, <<"a", "b", "a">>, <<"b">>}

RedactTargets == {<<>>, <<"a">>, <<"b">>, <<"B">>, <<"z">>}

RedactFiles ==
    {Absent, Junk}
        \cup {Pdf(pages) : pages \in SeqsUpTo(RedactPageTexts, MaxRedactPages)}

InitRedact ==
    /\ issued = {}
    /\ req = <<>>
    /\ \E file \in RedactFiles :
           fs = [path \in {temp_input_path(0), temp_output_path(0)} |->
                    IF path = temp_input_path(0) THEN file ELSE Absent]
    /\ \E targets \in SeqsUpTo(RedactTargets, MaxTargets) :
           unit = [fn |-> "redact", at |-> "call",
                   text_list_to_redact |-> targets, ret |-> FALSE,
                   escaped |-> FALSE, trace |-> <<>>]

\* the call returns or raises with outcome r
RedactCallReturns(r) ==
    /\ fs' = r.files
    /\ unit' = [unit EXCEPT !.at = "done", !.ret = r.ret,
                            !.escaped = r.escaped, !.trace = r.trace]

RedactCall ==
    /\ unit.fn = "redact" /\ unit.at = "call"
    /\ \E failAt \in 0..RedactCalls(fs, temp_input_path(0),
                                    temp_output_path(0),
                                    unit.text_list_to_redact),
          partial, closeRaises \in BOOLEAN :
           RedactCallReturns(redact_sensitive_text(
                                 fs, temp_input_path(0), temp_output_path(0),
                                 unit.text_list_to_redact,
                                 failAt, partial, closeRaises))
    /\ UNCHANGED <<issued, req>>

NextRedact == RedactCall

SpecRedact == InitRedact /\ [][NextRedact]_vars

\* C4: when redact_sensitive_text fails because the input path does not
\* exist, or because a library call made before the save raised, no file
\* exists at the output path afterwards (none existed before the call).
C4_NoOutputOnEarlyFailure ==
    (unit.fn = "redact" /\ unit.at = "done" /\ ~unit.ret) =>
        LET n == Len(unit.trace) IN
        (\/ fs[temp_input_path(0)] = Absent
         \/ /\ n > 0
            /\ unit.trace[n].raised
            /\ unit.trace[n].call \in {"open", "search_for",
                                       "add_redact_annot",
                                       "apply_redactions"})
            => fs[temp_output_path(0)] = Absent

\* a call that failed on the second page, after the first page's redactions
\* had been applied, and left no output file
C4_Witness ==
    /\ unit.fn = "redact" /\ unit.at = "done" /\ ~unit.ret
    /\ Len(unit.trace) > 2
    /\ unit.trace[Len(unit.trace)].raised
    /\ unit.trace[Len(unit.trace)].page = 2
    /\ \E i \in DOMAIN unit.trace :
           /\ unit.trace[i].call = "add_redact_annot"
           /\ unit.trace[i].page = 1
    /\ fs[temp_output_path(0)] = Absent

\* C9: with a non-empty target list the pages are processed in page order;
\* a page's redactions are applied after every non-empty target has been
\* searched and every hit marked on that page, and before any search or mark
\* on a later page; every page is applied, a page where nothing matched too.
C9_PageOrderAndFlatten ==
    (unit.fn = "redact" /\ unit.at = "done") =>
        LET tr == unit.trace
            targets == unit.text_list_to_redact
            pages == fs[temp_input_path(0)].pages
            OnPage == {i \in DOMAIN tr : tr[i].page > 0}
            Applied(p, before) ==
                \E j \in OnPage :
                    /\ j < before
                    /\ tr[j].call = "apply_redactions"
                    /\ tr[j].page = p /\ ~tr[j].raised
        IN  /\ \A i, j \in OnPage : i < j => tr[i].page <= tr[j].page
            /\ \A j \in OnPage :
                   tr[j].call = "apply_redactions" =>
                       /\ \A i \in OnPage :
                              (i # j /\ tr[i].page = tr[j].page) => i < j
                       /\ \A k \in DOMAIN targets :
                              targets[k] # <<>> =>
                                  /\ \E i \in OnPage :
                                         /\ i < j
                                         /\ tr[i].call = "search_for"
                                         /\ tr[i].page = tr[j].page
                                         /\ tr[i].target = targets[k]
                                  /\ \A rect \in Range(search_for(
                                                  pages[tr[j].page],
                                                  targets[k])) :
                                         \E i \in OnPage :
                                             /\ i < j
                                             /\ tr[i].call = "add_redact_annot"
                                             /\ tr[i].page = tr[j].page
                                             /\ tr[i].rect = rect
            /\ \A i \in OnPage :
                   \A p \in 1..(tr[i].page - 1) : Applied(p, i)
            /\ \A i \in DOMAIN tr :
                   tr[i].call = "save" =>
                       \A p \in 1..Len(pages) : Applied(p, i)

\* a run that succeeded on a document whose first page matches no target
\* and whose second page matches one target twice
C9_Witness ==
    /\ unit.fn = "redact" /\ unit.at = "done" /\ unit.ret
    /\ fs[temp_input_path(0)] = Pdf(<<<<"b">>, <<"a", "b", "a">>>>)
    /\ unit.text_list_to_redact = <<<<"a">>, <<"z">>>>
    /\ Len(unit.trace) = 11

\* the rectangles page.search_for finds for the non-empty targets on a page
HitsOnPage(text, targets) ==
    UNION {Range(search_for(text, targets[k])) :
               k \in {j \in DOMAIN targets : targets[j] # <<>>}}

\* C11: a target that matches nowhere in the document, and an empty target,
\* produce no redaction mark (an empty target is not even searched) and no
\* error: when no library call raises, every rectangle found for the other
\* targets on each page is marked, the output file is saved with exactly
\* those rectangles blacked out, and the call returns success, also when no
\* target matches at all (the saved pages then equal the input pages).
C11_NoMatchIsNoError ==
    (/\ unit.fn = "redact" /\ unit.at = "done"
     /\ unit.text_list_to_redact # <<>>
     /\ fs[temp_input_path(0)] # Absent) =>
        LET tr == unit.trace
            targets == unit.text_list_to_redact
            file == fs[temp_input_path(0)]
            Marks(p, t) ==
                {i \in DOMAIN tr : /\ tr[i].call = "add_redact_annot"
                                   /\ tr[i].page = p
                                   /\ tr[i].target = t}
        IN  /\ \A i \in DOMAIN tr :
                   /\ tr[i].call = "search_for" => tr[i].target # <<>>
                   /\ tr[i].call = "add_redact_annot" =>
                          /\ tr[i].target # <<>>
                          /\ tr[i].rect \in
                                 Range(search_for(file.pages[tr[i].page],
                                                  tr[i].target))
            /\ (file.parseable /\ \A i \in DOMAIN tr : ~tr[i].raised) =>
                   /\ unit.ret /\ ~unit.escaped
                   /\ \E i \in DOMAIN tr : tr[i].call = "save"
                   /\ \A p \in DOMAIN file.pages :
                          \A rect \in HitsOnPage(file.pages[p], targets) :
                              \E i \in DOMAIN tr :
                                  /\ tr[i].call = "add_redact_annot"
                                  /\ tr[i].page = p
                                  /\ tr[i].rect = rect
                   /\ fs[temp_output_path(0)] =
                          Saved([p \in DOMAIN file.pages |->
                                    Blackout(file.pages[p],
                                             HitsOnPage(file.pages[p],
                                                        targets))])

\* a call with one target that matches nowhere and one that matches twice
\* returned success: the two hits are marked and the output is saved
C11_Witness ==
    /\ unit.fn = "redact" /\ unit.at = "done" /\ unit.ret
    /\ fs[temp_input_path(0)] = Pdf(<<<<"a", "b", "a">>>>)
    /\ unit.text_list_to_redact = <<<<"z">>, <<"a">>>>
    /\ Cardinality({i \in DOMAIN unit.trace :
                        unit.trace[i].call = "add_redact_annot"}) = 2
    /\ fs[temp_output_path(0)] = Saved(<<<<"#", "b", "#">>>>)

====
